---- MODULE Spec2Model ----
(***************************************************************************)
(* TestFlows short log transform (testflows/_core/transform/log/short.py). *)
(*                                                                         *)
(* and the specification report                                            *)
(* (testflows/_core/cli/arg/handlers/report/specification.py).             *)
(*                                                                         *)
(* The module-level maps tests_by_id and tests_by_parent, the slot         *)
(* last_message and the generator transform() are modelled as a state      *)
(* machine: one step of the machine is one send(msg) to the generator.     *)
(*                                                                         *)
(* Representation of text                                                  *)
(*   - a test id or test name is the sequence of its path segments:        *)
(*     "/A/1" is <<"A", "1">>, so id.count('/') is Len(id);                 *)
(*   - a multi-line text is a sequence of lines [ind, txt]: ind leading    *)
(*     blanks followed by txt, txt = "" being a blank line; the empty      *)
(*     string is <<>>;                                                     *)
(*   - a formatted block is a sequence of output lines [ind, pieces],      *)
(*     every piece the result of one color(text, color, attrs) call;       *)
(*   - in the specification report a string is the sequence of its         *)
(*     characters, a test id the sequence of its segments, each a numeral, *)
(*     and a test name the sequence of its segments, each a string.        *)
(***************************************************************************)
EXTENDS Integers, Sequences, FiniteSets, TLC

VARIABLES tests_by_id,      \* short.py: map of tests by id
          tests_by_parent,  \* short.py: map of parent id -> list of tests
          last_message,     \* short.py: last_message[0]
          line,             \* transform(): the value the generator yields
          msg,              \* transform(): the message it was sent last
          error,            \* "" while the generator runs, else the exception
          show_skipped,     \* settings.show_skipped
          runs,             \* the generators transform() has returned so far
          log,              \* history: every message sent with what was yielded
          results,          \* specification.py: results of the log pipeline
          data,             \* specification.py: data["tests"]
          toc,              \* specification.py: toc of Formatter.format
          ss,               \* specification.py: ss of Formatter.format_tests
          pc                \* specification.py: where Handler.handle stands

vars == <<tests_by_id, tests_by_parent, last_message, line, msg, error,
          show_skipped, runs, log, results, data, toc, ss, pc>>

\* the variables of the specification report and those of the transform
reportvars == <<results, data, toc, ss, pc>>

shortvars == <<tests_by_id, tests_by_parent, last_message, line, msg, error,
               show_skipped, runs, log>>

-----------------------------------------------------------------------------
(* Bounds of the model.                                                    *)

\* messages sent in one behaviour of the stream specifications
MaxEvents == 4
\* messages sent in one behaviour of the formatter specifications
MaxPure == 2
\* generators started in one process
MaxRuns == 2

-----------------------------------------------------------------------------
(* Generic helpers.                                                        *)

Last(s) == s[Len(s)]

Front(s) == IF s = <<>> THEN <<>> ELSE SubSeq(s, 1, Len(s) - 1)

\* dict.get(k, default)
get(map, k, default) == IF k \in DOMAIN map THEN map[k] ELSE default

\* Python's None, as a message and as a yielded value
NoMessage == [message_keyword |-> "None"]

None == [some |-> FALSE, text |-> <<>>]

Str(lines) == [some |-> TRUE, text |-> lines]

Min(S) == CHOOSE x \in S : \A y \in S : x <= y

-----------------------------------------------------------------------------
(* Collaborators that are imported by short.py.                            *)

\* testflows._core.name: split(name)[-1] and basename(name)
basename(name) == IF name = <<>> THEN "" ELSE Last(name)

\* testflows._core.name: parentname(name)
parentname(name) == Front(name)

\* testflows._core.flags: the skip bit
SKIP == "SKIP"

\* testflows._core.testtype: members of TestType
TestTypes == {"Module", "Suite", "Test", "Iteration", "Step"}

\* testflows._core.testtype: members of TestSubType
TestSubTypes == {"Feature", "Scenario", "Background", "Given", "When", "Then",
                 "And", "But", "By", "Finally"}

\* testflows._core.cli.colors: color(text, color, attrs)
color(text, c, attrs) == [text |-> text, color |-> c, attrs |-> attrs]

\* testflows._core.cli.colors: cursor_up()
cursor_up == [text |-> "cursor_up", color |-> "", attrs |-> {}]

\* literal text of an f-string
plain(text) == [text |-> text, color |-> "", attrs |-> {}]

-----------------------------------------------------------------------------
(* short.py, lines 26-54.                                                  *)

\* indent = " " * 2
indent == 2

color_other(other) == color(other, "white", {"dim"})

color_keyword(keyword) == color(keyword, "white", {"bold"})

color_secondary_keyword(keyword) == color(keyword, "white", {"bold", "dim"})

color_test_name(name) == color(name, "white", {})

XResults == {"XOK", "XFail", "XError", "XNull"}

\* result.startswith("X")
startswithX(result) == result \in XResults

color_result(result) ==
    IF startswithX(result) THEN color(result, "blue", {"bold"})
    ELSE IF result = "OK" THEN color(result, "green", {"bold"})
    ELSE IF result = "Skip" THEN color(result, "cyan", {"bold"})
    ELSE color(result, "red", {"bold"})

-----------------------------------------------------------------------------
(* format_multiline, lines 61-68.                                          *)

IsBlank(l) == l.txt = ""

RECURSIVE rstrip(_)
\* text.rstrip(): trailing blank lines go
rstrip(text) ==
    IF text = <<>> THEN <<>>
    ELSE IF IsBlank(Last(text)) THEN rstrip(Front(text))
    ELSE text

RECURSIVE lstrip(_)
\* text.lstrip(): leading blank lines and the first line's leading blanks go
lstrip(text) ==
    IF text = <<>> THEN <<>>
    ELSE IF IsBlank(text[1]) THEN lstrip(Tail(text))
    ELSE <<[ind |-> 0, txt |-> text[1].txt]>> \o Tail(text)

\* textwrap.dedent(text): the common leading blanks of the non-blank lines go
dedent(text) ==
    LET solid == {i \in 1..Len(text) : ~IsBlank(text[i])}
        margin == IF solid = {} THEN 0 ELSE Min({text[i].ind : i \in solid})
    IN [i \in 1..Len(text) |->
          IF IsBlank(text[i]) THEN [ind |-> 0, txt |-> ""]
          ELSE [ind |-> text[i].ind - margin, txt |-> text[i].txt]]

\* textwrap.indent(text, prefix): prefix before every non-blank line
textwrap_indent(text, prefix) ==
    [i \in 1..Len(text) |->
          IF IsBlank(text[i]) THEN text[i]
          ELSE [ind |-> text[i].ind + prefix, txt |-> text[i].txt]]

format_multiline(text, _indent) ==
    LET t == rstrip(text)
        first == IF t = <<>> \/ IsBlank(t[1]) THEN <<>>
                 ELSE <<[ind |-> 0, txt |-> t[1].txt]>>
        rest == IF t = <<>> THEN <<>> ELSE Tail(t)
        out == rstrip(first \o dedent(rstrip(rest)))
    IN textwrap_indent(out, _indent + 2)

\* the lines of a text, coloured, as output lines
Lines(text, c, attrs) ==
    [i \in 1..Len(text) |->
        [ind |-> text[i].ind,
         pieces |-> IF IsBlank(text[i]) THEN <<>> ELSE <<color(text[i].txt, c, attrs)>>]]

-----------------------------------------------------------------------------
(* Messages.  Every message carries every field; a field that a kind does   *)
(* not use holds its empty value.  absent names the keys the dictionary    *)
(* lacks: msg[key] raises KeyError for them.                               *)

Message(kind, id, flags) ==
    [message_keyword |-> kind, test_id |-> id, test_flags |-> flags,
     test_type |-> "None", test_subtype |-> "None",
     test_name |-> <<>>, test_description |-> <<>>,
     result_type |-> "", result_test |-> <<>>,
     result_message |-> <<>>, result_reason |-> "",
     attribute_name |-> "", attribute_value |-> "", message |-> "",
     absent |-> {}]

\* msg[key] for one of the keys raises KeyError
KeyError(m, keys) == keys \cap m.absent # {}

-----------------------------------------------------------------------------
(* format_input, lines 56-59.                                              *)

format_input(m, keyword) ==
    Str(<<[ind |-> indent * Len(m.test_id),
           pieces |-> <<color("\\u270b ", "yellow", {"bold"}),
                        color(m.message, "yellow", {"bold"}),
                        cursor_up>>]>>)

-----------------------------------------------------------------------------
(* format_test_description, lines 70-73.                                   *)

format_test_description(m, _indent) ==
    LET desc == format_multiline(m.test_description, _indent)
    IN IF desc = <<>> THEN <<[ind |-> 0, pieces |-> <<>>]>>
       ELSE Lines(desc, "white", {"dim"})

-----------------------------------------------------------------------------
(* format_attribute, lines 82-90.  last is last_message[0].                *)

format_attribute(m, last) ==
    LET _indent == indent * (Len(m.test_id) - 1)
        header == IF last # NoMessage /\ ~(last.message_keyword = "ATTRIBUTE")
                  THEN <<[ind |-> _indent + 2,
                          pieces |-> <<color_secondary_keyword("Attributes")>>]>>
                  ELSE <<>>
    IN Str(header \o
           <<[ind |-> indent + 2,
              pieces |-> <<color(m.attribute_name, "white", {"dim"})>>],
             [ind |-> indent + 4,
              pieces |-> <<color(m.attribute_value, "white", {"dim"})>>]>>)

-----------------------------------------------------------------------------
(* get_type and get_subtype, lines 111-115.                                *)

\* getattr(TestType, name) raises AttributeError for a name TestType lacks
get_type_raises(m) == m.test_type \notin TestTypes

get_type(m) == m.test_type

\* getattr(TestSubType, str(name), 0)
get_subtype(m) == IF m.test_subtype \in TestSubTypes THEN m.test_subtype ELSE "0"

-----------------------------------------------------------------------------
(* and_keyword, lines 117-127.  tbp and tbi are the module-level maps.     *)

\* and_keyword with rule (b) not asking whether the step is the first child
and_keyword_any_child(m, parent_id, keyword, subtype, tbp, tbi) ==
    LET siblings == get(tbp, parent_id, <<>>)
        has_prev == Len(siblings) > 1
        prev == siblings[Len(siblings) - 1]
        keyword1 == IF has_prev /\ get_subtype(prev) = subtype
                       /\ prev.test_id \notin DOMAIN tbp
                    THEN "And" ELSE keyword
        has_parent == parent_id \in DOMAIN tbi
        parent == tbi[parent_id]
    IN IF has_parent /\ get_subtype(parent) = subtype
       THEN "And" ELSE keyword1

\* and_keyword looking back only from the third sibling on
and_keyword_late(m, parent_id, keyword, subtype, tbp, tbi) ==
    LET siblings == get(tbp, parent_id, <<>>)
        has_prev == Len(siblings) > 2
        prev == siblings[Len(siblings) - 1]
        keyword1 == IF has_prev /\ get_subtype(prev) = subtype
                       /\ prev.test_id \notin DOMAIN tbp
                    THEN "And" ELSE keyword
        has_parent == parent_id \in DOMAIN tbi
        parent == tbi[parent_id]
    IN IF has_parent /\ get_subtype(parent) = subtype /\ Len(siblings) = 1
       THEN "And" ELSE keyword1

\* and_keyword with rule (a) not comparing the subtype of the sibling
and_keyword_no_subtype(m, parent_id, keyword, subtype, tbp, tbi) ==
    LET siblings == get(tbp, parent_id, <<>>)
        has_prev == Len(siblings) > 1
        prev == siblings[Len(siblings) - 1]
        keyword1 == IF has_prev /\ prev.test_id \notin DOMAIN tbp
                    THEN "And" ELSE keyword
        has_parent == parent_id \in DOMAIN tbi
        parent == tbi[parent_id]
    IN IF has_parent /\ get_subtype(parent) = subtype /\ Len(siblings) = 1
       THEN "And" ELSE keyword1

\* and_keyword with rule (a) asking for the children of the step itself
and_keyword_own_children(m, parent_id, keyword, subtype, tbp, tbi) ==
    LET siblings == get(tbp, parent_id, <<>>)
        has_prev == Len(siblings) > 1
        prev == siblings[Len(siblings) - 1]
        keyword1 == IF has_prev /\ get_subtype(prev) = subtype
                       /\ m.test_id \notin DOMAIN tbp
                    THEN "And" ELSE keyword
        has_parent == parent_id \in DOMAIN tbi
        parent == tbi[parent_id]
    IN IF has_parent /\ get_subtype(parent) = subtype /\ Len(siblings) = 1
       THEN "And" ELSE keyword1

and_keyword(m, parent_id, keyword, subtype, tbp, tbi) ==
    LET siblings == get(tbp, parent_id, <<>>)
        has_prev == Len(siblings) > 1
        prev == siblings[Len(siblings) - 1]
        keyword1 == IF has_prev /\ get_subtype(prev) = subtype
                       /\ prev.test_id \notin DOMAIN tbp
                    THEN "And" ELSE keyword
        has_parent == parent_id \in DOMAIN tbi
        parent == tbi[parent_id]
    IN IF has_parent /\ get_subtype(parent) = subtype /\ Len(siblings) = 1
       THEN "And" ELSE keyword1

-----------------------------------------------------------------------------
(* format_test, lines 129-180.                                             *)

\* the test put before its siblings in the list of its parent
add_by_parent_front(m, tbp) ==
    LET parent == parentname(m.test_id)
    IN [p \in DOMAIN tbp \cup {parent} |->
          IF p = parent THEN <<m>> \o get(tbp, parent, <<>>) ELSE tbp[p]]

\* lines 131-135: add test to the tests map
add_by_parent(m, tbp) ==
    LET parent == parentname(m.test_id)
    IN [p \in DOMAIN tbp \cup {parent} |->
          IF p = parent THEN Append(get(tbp, parent, <<>>), m) ELSE tbp[p]]

add_by_id(m, tbi) ==
    [i \in DOMAIN tbi \cup {m.test_id} |-> IF i = m.test_id THEN m ELSE tbi[i]]

\* test_keyword asking for the subtypes Scenario and Background before the type
test_keyword_subtype_first(m, keyword, tbp, tbi) ==
    LET parent == parentname(m.test_id)
        test_type == get_type(m)
        test_subtype == get_subtype(m)
    IN IF test_subtype = "Scenario" THEN keyword \o "Scenario"
       ELSE IF test_subtype = "Background" THEN keyword \o "Background"
       ELSE IF test_type = "Module" THEN keyword \o "Module"
       ELSE IF test_type = "Suite" THEN
            IF test_subtype = "Feature" THEN keyword \o "Feature"
            ELSE keyword \o "Suite"
       ELSE IF test_type = "Iteration" THEN keyword \o "Iteration"
       ELSE IF test_type = "Step" THEN
            IF test_subtype = "And" THEN keyword \o "And"
            ELSE IF test_subtype \in {"Given", "When", "Then", "By", "But", "Finally"}
                 THEN keyword \o and_keyword(m, parent, test_subtype, test_subtype, tbp, tbi)
            ELSE keyword \o "Step"
       ELSE keyword \o "Test"

\* lines 140-172: the keyword, with the maps as they are after the test is added
test_keyword(m, keyword, tbp, tbi) ==
    LET parent == parentname(m.test_id)
        test_type == get_type(m)
        test_subtype == get_subtype(m)
    IN IF test_type = "Module" THEN keyword \o "Module"
       ELSE IF test_type = "Suite" THEN
            IF test_subtype = "Feature" THEN keyword \o "Feature"
            ELSE keyword \o "Suite"
       ELSE IF test_type = "Iteration" THEN keyword \o "Iteration"
       ELSE IF test_type = "Step" THEN
            IF test_subtype = "And" THEN keyword \o "And"
            ELSE IF test_subtype = "Given"
                 THEN keyword \o and_keyword(m, parent, "Given", "Given", tbp, tbi)
            ELSE IF test_subtype = "When"
                 THEN keyword \o and_keyword(m, parent, "When", "When", tbp, tbi)
            ELSE IF test_subtype = "Then"
                 THEN keyword \o and_keyword(m, parent, "Then", "Then", tbp, tbi)
            ELSE IF test_subtype = "By"
                 THEN keyword \o and_keyword(m, parent, "By", "By", tbp, tbi)
            ELSE IF test_subtype = "But"
                 THEN keyword \o and_keyword(m, parent, "But", "But", tbp, tbi)
            ELSE IF test_subtype = "Finally"
                 THEN keyword \o and_keyword(m, parent, "Finally", "Finally", tbp, tbi)
            ELSE keyword \o "Step"
       ELSE IF test_subtype = "Scenario" THEN keyword \o "Scenario"
       ELSE IF test_subtype = "Background" THEN keyword \o "Background"
       ELSE keyword \o "Test"

\* test_block indenting by the count of separators, as format_input does
test_block_full_depth(m, keyword) ==
    LET _keyword == color_keyword(keyword)
        _name == color_test_name(basename(m.test_name))
        _indent == indent * Len(m.test_id)
    IN <<[ind |-> _indent, pieces |-> <<_keyword, plain(" "), _name>>]>>
       \o (IF m.test_description # <<>>
           THEN format_test_description(m, _indent) ELSE <<>>)

\* lines 174-180: the block
test_block(m, keyword) ==
    LET _keyword == color_keyword(keyword)
        _name == color_test_name(basename(m.test_name))
        _indent == indent * (Len(m.test_id) - 1)
    IN <<[ind |-> _indent, pieces |-> <<_keyword, plain(" "), _name>>]>>
       \o (IF m.test_description # <<>>
           THEN format_test_description(m, _indent) ELSE <<>>)

\* the block, the maps it leaves and the exception it raises, if any
format_test(m, keyword, tbp, tbi) ==
    LET new_by_parent == add_by_parent(m, tbp)
        new_by_id == add_by_id(m, tbi)
    IN IF KeyError(m, {"test_id"})
       THEN [out |-> None, tests_by_parent |-> tbp,
             tests_by_id |-> tbi, error |-> "KeyError"]
       ELSE IF KeyError(m, {"test_type"})
       THEN [out |-> None, tests_by_parent |-> new_by_parent,
             tests_by_id |-> new_by_id, error |-> "KeyError"]
       ELSE IF get_type_raises(m)
       THEN [out |-> None, tests_by_parent |-> new_by_parent,
             tests_by_id |-> new_by_id, error |-> "AttributeError"]
       ELSE IF KeyError(m, {"test_subtype", "test_name", "test_description"})
       THEN [out |-> None, tests_by_parent |-> new_by_parent,
             tests_by_id |-> new_by_id, error |-> "KeyError"]
       ELSE [out |-> Str(test_block(m, test_keyword(m, keyword, new_by_parent, new_by_id))),
             tests_by_parent |-> new_by_parent,
             tests_by_id |-> new_by_id, error |-> ""]

-----------------------------------------------------------------------------
(* format_result, lines 182-201.                                           *)

\* format_result writing the name of the test after every result
format_result_named(m) ==
    LET result == m.result_type
        _result == color_result(result)
        _test == color_test_name(basename(m.result_test))
        _indent == indent * (Len(m.test_id) - 1)
        message == lstrip(format_multiline(m.result_message, _indent))
        head == IF message = <<>> THEN "" ELSE message[1].txt
        more == IF message = <<>> THEN <<>> ELSE Tail(message)
    IN IF result \in {"Fail", "Error", "Null"} /\ m.result_message # <<>>
       THEN Str(<<[ind |-> _indent,
                   pieces |-> <<_result, plain(" "), _test, color_test_name(","),
                                plain(" "), color(head, "yellow", {"bold"})>>]>>
                \o Lines(more, "yellow", {"bold"}))
       ELSE IF startswithX(result) /\ m.result_reason # ""
       THEN Str(<<[ind |-> _indent,
                   pieces |-> <<_result, plain(" "), _test, color_test_name(","),
                                plain(" "), color(m.result_reason, "blue", {"bold"})>>]>>)
       ELSE Str(<<[ind |-> _indent, pieces |-> <<_result, plain(" "), _test>>]>>)

format_result(m) ==
    LET result == m.result_type
        _result == color_result(result)
        _test == color_test_name(basename(m.result_test))
        _indent == indent * (Len(m.test_id) - 1)
        message == lstrip(format_multiline(m.result_message, _indent))
        head == IF message = <<>> THEN "" ELSE message[1].txt
        more == IF message = <<>> THEN <<>> ELSE Tail(message)
    IN IF result \in {"Fail", "Error", "Null"} THEN
            IF m.result_message # <<>>
            THEN Str(<<[ind |-> _indent,
                        pieces |-> <<_result, plain(" "), _test, color_test_name(","),
                                     plain(" "), color(head, "yellow", {"bold"})>>]>>
                     \o Lines(more, "yellow", {"bold"}))
            ELSE Str(<<[ind |-> _indent, pieces |-> <<_result, plain(" "), _test>>]>>)
       ELSE IF startswithX(result) THEN
            IF m.result_reason # ""
            THEN Str(<<[ind |-> _indent,
                        pieces |-> <<_result, plain(" "), _test, color_test_name(","),
                                     plain(" "), color(m.result_reason, "blue", {"bold"})>>]>>)
            ELSE Str(<<[ind |-> _indent, pieces |-> <<_result, plain(" "), _test>>]>>)
       ELSE Str(<<[ind |-> _indent, pieces |-> <<_result>>]>>)

-----------------------------------------------------------------------------
(* formatters, lines 203-208, and transform, lines 210-227.                *)

formatters == [INPUT |-> "format_input", TEST |-> "format_test",
               RESULT |-> "format_result", ATTRIBUTE |-> "format_attribute"]

\* the keys format_input, format_result and format_attribute read of msg
format_input_keys == {"test_id", "message"}

format_result_keys(m) ==
    {"result_type", "result_test", "test_id"}
    \cup (IF m.result_type \in {"Fail", "Error", "Null"} THEN {"result_message"}
          ELSE IF startswithX(m.result_type) THEN {"result_reason"} ELSE {})

format_attribute_keys == {"test_id", "attribute_name", "attribute_value"}

\* formatter[0](line, *formatter[1:])
call_formatter(m, tbp, tbi, last) ==
    LET formatter == formatters[m.message_keyword]
        keys == IF formatter = "format_input" THEN format_input_keys
                ELSE IF formatter = "format_result"
                THEN (IF KeyError(m, {"result_type"}) THEN {"result_type"}
                      ELSE format_result_keys(m))
                ELSE format_attribute_keys
    IN IF formatter = "format_test" THEN format_test(m, "", tbp, tbi)
       ELSE IF KeyError(m, keys)
       THEN [out |-> None, tests_by_parent |-> tbp, tests_by_id |-> tbi,
             error |-> "KeyError"]
       ELSE [out |-> IF formatter = "format_input" THEN format_input(m, "")
                     ELSE IF formatter = "format_result" THEN format_result(m)
                     ELSE format_attribute(m, last),
             tests_by_parent |-> tbp, tests_by_id |-> tbi, error |-> ""]

\* transform keeping every message it is sent as the last message
transform_step_remember_dropped(m, tbp, tbi, last, skipped) ==
    IF KeyError(m, {"message_keyword"})
    THEN [line |-> None, tests_by_parent |-> tbp, tests_by_id |-> tbi,
          last_message |-> last, error |-> "KeyError"]
    ELSE IF m.message_keyword \in DOMAIN formatters
    THEN IF KeyError(m, {"test_flags"})
         THEN [line |-> None, tests_by_parent |-> tbp, tests_by_id |-> tbi,
               last_message |-> last, error |-> "KeyError"]
         ELSE IF SKIP \in m.test_flags /\ skipped = FALSE
         THEN [line |-> None, tests_by_parent |-> tbp, tests_by_id |-> tbi,
               last_message |-> m, error |-> ""]
         ELSE LET r == call_formatter(m, tbp, tbi, last)
              IN [line |-> r.out, tests_by_parent |-> r.tests_by_parent,
                  tests_by_id |-> r.tests_by_id,
                  last_message |-> IF r.error = "" THEN m ELSE last,
                  error |-> r.error]
    ELSE [line |-> None, tests_by_parent |-> tbp, tests_by_id |-> tbi,
          last_message |-> m, error |-> ""]

\* transform dropping a flagged message whatever show_skipped is
transform_step_skip_always(m, tbp, tbi, last, skipped) ==
    IF KeyError(m, {"message_keyword"})
    THEN [line |-> None, tests_by_parent |-> tbp, tests_by_id |-> tbi,
          last_message |-> last, error |-> "KeyError"]
    ELSE IF m.message_keyword \in DOMAIN formatters
    THEN IF KeyError(m, {"test_flags"})
         THEN [line |-> None, tests_by_parent |-> tbp, tests_by_id |-> tbi,
               last_message |-> last, error |-> "KeyError"]
         ELSE IF SKIP \in m.test_flags
         THEN [line |-> None, tests_by_parent |-> tbp, tests_by_id |-> tbi,
               last_message |-> last, error |-> ""]
         ELSE LET r == call_formatter(m, tbp, tbi, last)
              IN [line |-> r.out, tests_by_parent |-> r.tests_by_parent,
                  tests_by_id |-> r.tests_by_id,
                  last_message |-> IF r.error = "" THEN m ELSE last,
                  error |-> r.error]
    ELSE [line |-> None, tests_by_parent |-> tbp, tests_by_id |-> tbi,
          last_message |-> last, error |-> ""]

\* transform clearing last_message when it yields nothing for a message
transform_step_reset_on_drop(m, tbp, tbi, last, skipped) ==
    IF KeyError(m, {"message_keyword"})
    THEN [line |-> None, tests_by_parent |-> tbp, tests_by_id |-> tbi,
          last_message |-> last, error |-> "KeyError"]
    ELSE IF m.message_keyword \in DOMAIN formatters
    THEN IF KeyError(m, {"test_flags"})
         THEN [line |-> None, tests_by_parent |-> tbp, tests_by_id |-> tbi,
               last_message |-> last, error |-> "KeyError"]
         ELSE IF SKIP \in m.test_flags /\ skipped = FALSE
         THEN [line |-> None, tests_by_parent |-> tbp, tests_by_id |-> tbi,
               last_message |-> NoMessage, error |-> ""]
         ELSE LET r == call_formatter(m, tbp, tbi, last)
              IN [line |-> r.out, tests_by_parent |-> r.tests_by_parent,
                  tests_by_id |-> r.tests_by_id,
                  last_message |-> IF r.error = "" THEN m ELSE last,
                  error |-> r.error]
    ELSE [line |-> None, tests_by_parent |-> tbp, tests_by_id |-> tbi,
          last_message |-> NoMessage, error |-> ""]

\* transform recording a flagged test before it drops it
transform_step_record_dropped(m, tbp, tbi, last, skipped) ==
    IF KeyError(m, {"message_keyword"})
    THEN [line |-> None, tests_by_parent |-> tbp, tests_by_id |-> tbi,
          last_message |-> last, error |-> "KeyError"]
    ELSE IF m.message_keyword \in DOMAIN formatters
    THEN IF KeyError(m, {"test_flags"})
         THEN [line |-> None, tests_by_parent |-> tbp, tests_by_id |-> tbi,
               last_message |-> last, error |-> "KeyError"]
         ELSE LET r == call_formatter(m, tbp, tbi, last)
              IN IF SKIP \in m.test_flags /\ skipped = FALSE
                 THEN [line |-> None, tests_by_parent |-> r.tests_by_parent,
                       tests_by_id |-> r.tests_by_id,
                       last_message |-> last, error |-> ""]
                 ELSE [line |-> r.out, tests_by_parent |-> r.tests_by_parent,
                       tests_by_id |-> r.tests_by_id,
                       last_message |-> IF r.error = "" THEN m ELSE last,
                       error |-> r.error]
    ELSE [line |-> None, tests_by_parent |-> tbp, tests_by_id |-> tbi,
          last_message |-> last, error |-> ""]

\* what one send(m) leaves: yielded line, maps, last_message, exception
transform_step(m, tbp, tbi, last, skipped) ==
    IF KeyError(m, {"message_keyword"})
    THEN [line |-> None, tests_by_parent |-> tbp, tests_by_id |-> tbi,
          last_message |-> last, error |-> "KeyError"]
    ELSE IF m.message_keyword \in DOMAIN formatters
    THEN IF KeyError(m, {"test_flags"})
         THEN [line |-> None, tests_by_parent |-> tbp, tests_by_id |-> tbi,
               last_message |-> last, error |-> "KeyError"]
         ELSE IF SKIP \in m.test_flags /\ skipped = FALSE
         THEN [line |-> None, tests_by_parent |-> tbp, tests_by_id |-> tbi,
               last_message |-> last, error |-> ""]
         ELSE LET r == call_formatter(m, tbp, tbi, last)
              IN [line |-> r.out, tests_by_parent |-> r.tests_by_parent,
                  tests_by_id |-> r.tests_by_id,
                  last_message |-> IF r.error = "" THEN m ELSE last,
                  error |-> r.error]
    ELSE [line |-> None, tests_by_parent |-> tbp, tests_by_id |-> tbi,
          last_message |-> last, error |-> ""]

\* gen.send(m) to the generator gen that a call of transform() returned: the
\* generator keeps only line and msg, the maps and last_message are the module's
send(gen, m) ==
    LET r == transform_step(m, tests_by_parent, tests_by_id, last_message, show_skipped)
    IN /\ error = ""
       /\ gen \in runs
       /\ msg' = m
       /\ line' = r.line
       /\ tests_by_parent' = r.tests_by_parent
       /\ tests_by_id' = r.tests_by_id
       /\ last_message' = r.last_message
       /\ error' = r.error
       /\ log' = Append(log, [msg |-> m, line |-> r.line, run |-> gen])
       /\ UNCHANGED <<show_skipped, runs, reportvars>>

\* one send(m) to the first generator
transform(m) == send(1, m)

\* gen = transform(); next(gen): a further generator runs to its first yield
start(gen) ==
    /\ error = ""
    /\ gen \notin runs
    /\ runs' = runs \cup {gen}
    /\ line' = None
    /\ UNCHANGED <<tests_by_id, tests_by_parent, last_message, msg, error,
                   show_skipped, log, reportvars>>

\* no report is asked for
NoResults == [tests |-> <<>>, tests_by_parent |-> <<>>]

NoReport ==
    /\ results = NoResults
    /\ data = <<>>
    /\ toc = <<>>
    /\ ss = <<>>
    /\ pc = "idle"

\* the module as imported, before transform() is first sent a message
Init ==
    /\ NoReport
    /\ tests_by_id = <<>>
    /\ tests_by_parent = <<>>
    /\ last_message = NoMessage
    /\ line = None
    /\ msg = NoMessage
    /\ error = ""
    /\ show_skipped \in BOOLEAN
    /\ runs = {1}
    /\ log = <<>>

-----------------------------------------------------------------------------
(* The messages the specifications send.                                   *)

A == <<"A">>
A1 == <<"A", "1">>
A2 == <<"A", "2">>
A3 == <<"A", "3">>
A11 == <<"A", "1", "1">>

\* test_name of the test with the given id
TestName(id) ==
    IF id = A1 THEN <<"A", "setup">>
    ELSE IF id = A2 THEN <<"A", "more setup">>
    ELSE IF id = A3 THEN <<"A", "teardown">>
    ELSE IF id = A11 THEN <<"A", "setup", "detail">>
    ELSE id

Test(id, type, subtype, description, flags) ==
    [Message("TEST", id, flags) EXCEPT
        !.test_type = type, !.test_subtype = subtype,
        !.test_name = TestName(id), !.test_description = description]

Result(id, result, message, reason, flags) ==
    [Message("RESULT", id, flags) EXCEPT
        !.result_type = result, !.result_test = TestName(id),
        !.result_message = message, !.result_reason = reason]

Attribute(id, name, value, flags) ==
    [Message("ATTRIBUTE", id, flags) EXCEPT
        !.attribute_name = name, !.attribute_value = value]

Input(id, text, flags) == [Message("INPUT", id, flags) EXCEPT !.message = text]

\* texts: "boom", a docstring-like text, a text of blanks only
OneLine == <<[ind |-> 0, txt |-> "boom"]>>

DocString == <<[ind |-> 0, txt |-> ""], [ind |-> 4, txt |-> "first"],
               [ind |-> 6, txt |-> "second"], [ind |-> 0, txt |-> ""]>>

Blanks == <<[ind |-> 0, txt |-> ""]>>

FlagSets == {{}, {SKIP}}

\* steps of two subtypes on a tree of five ids; the first two children and
\* the grandchild may carry the skip flag
StepIds == {A, A1, A2, A3, A11}

StepEvents ==
    {Test(id, "Step", st, <<>>, {}) : id \in StepIds, st \in {"Given", "When"}}
    \cup {Test(id, "Step", st, <<>>, {SKIP}) : id \in {A1, A2, A11}, st \in {"Given", "When"}}

\* a stream of every kind on a test and its step
StreamTests ==
    {Test(A, "Suite", "Feature", <<>>, {})}
    \cup {Test(A1, "Step", "Given", DocString, f) : f \in FlagSets}

StreamResults == {Result(A1, "Fail", OneLine, "", f) : f \in FlagSets}

StreamAttributes ==
    {Attribute(A, "owner", "me", {})}
    \cup {Attribute(A1, "owner", "me", f) : f \in FlagSets}

StreamInputs == {Input(A1, "continue?", f) : f \in FlagSets}

\* kinds that formatters does not know
StreamOthers == {Message(k, A1, f) : k \in {"NOTE"}, f \in FlagSets}

\* the end-to-end scenario of a feature with two given steps
ScenarioEvents ==
    <<Test(A, "Suite", "Feature", <<>>, {}),
      Test(A1, "Step", "Given", <<>>, {}),
      Test(A2, "Step", "Given", <<>>, {}),
      Result(A, "OK", <<>>, "", {})>>

\* every type with every subtype
SubTypeNames == TestSubTypes \cup {"None"}

KeywordEvents ==
    {Test(id, t, st, <<>>, {}) : id \in {A, A1}, t \in TestTypes, st \in SubTypeNames}
    \cup {Test(A2, "Step", st, <<>>, {}) : st \in {"Given", "When", "And"}}

\* every result type with and without message and reason
ResultTypes == {"OK", "Fail", "Error", "Null", "Skip"} \cup XResults

ResultEvents ==
    {Result(A1, r, m, rs, {}) :
        r \in ResultTypes, m \in {<<>>, OneLine, DocString}, rs \in {"", "known"}}
    \cup {Result(A, "OK", <<>>, "", {}), Result(A, "Fail", Blanks, "", {})}

\* the producer of the log gives every test its own id
Fresh(m) ==
    m.message_keyword = "TEST" =>
        \A i \in 1..Len(log) :
            log[i].msg.message_keyword = "TEST" => log[i].msg.test_id # m.test_id

-----------------------------------------------------------------------------
(* Specifications.                                                         *)

SendTest ==
    \E m \in StreamTests : Len(log) < MaxEvents /\ Fresh(m) /\ transform(m)

SendResult ==
    \E m \in StreamResults : Len(log) < MaxEvents /\ Fresh(m) /\ transform(m)

SendAttribute ==
    \E m \in StreamAttributes : Len(log) < MaxEvents /\ Fresh(m) /\ transform(m)

SendInput ==
    \E m \in StreamInputs : Len(log) < MaxEvents /\ Fresh(m) /\ transform(m)

SendOther ==
    \E m \in StreamOthers : Len(log) < MaxEvents /\ Fresh(m) /\ transform(m)

Next == SendTest \/ SendResult \/ SendAttribute \/ SendInput \/ SendOther

\* every kind of message on a test and its step
Spec == Init /\ [][Next]_vars

SendStep ==
    \E m \in StepEvents : Len(log) < MaxEvents /\ Fresh(m) /\ transform(m)

\* steps only: the And-collapse rule
SpecSteps == Init /\ [][SendStep]_vars

SendScenario ==
    \E i \in 1..Len(ScenarioEvents) :
        Len(log) < MaxEvents /\ Fresh(ScenarioEvents[i]) /\ transform(ScenarioEvents[i])

\* the messages of the end-to-end scenario, in any order
SpecScenario == Init /\ [][SendScenario]_vars

SendKeyword ==
    \E m \in KeywordEvents : Len(log) < MaxPure /\ Fresh(m) /\ transform(m)

\* format_test on every type and subtype
SpecKeyword == Init /\ [][SendKeyword]_vars

SendAnyResult ==
    \E m \in ResultEvents : Len(log) < MaxPure /\ Fresh(m) /\ transform(m)

\* format_result on every result type
SpecResult == Init /\ [][SendAnyResult]_vars

\* two logs of the same feature, each rendered by a generator of its own
Runs == 1..MaxRuns

RunEvents ==
    {Test(A, "Suite", "Feature", <<>>, {}),
     Test(A1, "Step", "Given", <<>>, {}),
     Attribute(A, "owner", "me", {})}

\* the producer of a log gives every test of the log its own id
FreshIn(m, gen) ==
    m.message_keyword = "TEST" =>
        \A i \in 1..Len(log) :
            (log[i].run = gen /\ log[i].msg.message_keyword = "TEST")
                => log[i].msg.test_id # m.test_id

StartRun == \E gen \in Runs : Len(log) < MaxEvents /\ start(gen)

SendRun ==
    \E gen \in Runs : \E m \in RunEvents :
        Len(log) < MaxEvents /\ FreshIn(m, gen) /\ send(gen, m)

\* several runs in one process, one after the other or interleaved
SpecRuns == Init /\ [][StartRun \/ SendRun]_vars

\* a log that gives the id of a test to a second test
DuplicateEvents ==
    {Test(A, "Suite", "Feature", <<>>, {})}
    \cup {Test(A1, "Step", st, <<>>, f) : st \in {"Given", "When"}, f \in FlagSets}

SendDuplicate == \E m \in DuplicateEvents : Len(log) < MaxEvents /\ transform(m)

\* TEST messages whose ids need not differ
SpecDuplicate == Init /\ [][SendDuplicate]_vars

\* every kind on a test and its two steps, the steps flagged or not
TrackerEvents ==
    {Test(A, "Suite", "Feature", <<>>, {})}
    \cup {Test(id, "Step", "Given", <<>>, f) : id \in {A1, A2}, f \in FlagSets}
    \cup {Result(A1, "Fail", OneLine, "", {}), Attribute(A1, "owner", "me", {}),
          Input(A1, "continue?", {SKIP}), Message("NOTE", A1, {})}

SendTracked == \E m \in TrackerEvents : Len(log) < MaxEvents /\ Fresh(m) /\ transform(m)

\* what the messages of a log do to the two maps
SpecTracker == Init /\ [][SendTracked]_vars

\* the keys every path of transform and of the formatter of the kind reads
Required(kind) ==
    {"message_keyword", "test_flags", "test_id"}
    \cup (IF kind = "INPUT" THEN {"message"}
          ELSE IF kind = "TEST"
          THEN {"test_type", "test_subtype", "test_name", "test_description"}
          ELSE IF kind = "RESULT" THEN {"result_type", "result_test"}
          ELSE IF kind = "ATTRIBUTE" THEN {"attribute_name", "attribute_value"}
          ELSE {})

\* the message m without the key
Lacking(m, key) == [m EXCEPT !.absent = {key}]

WellFormedEvents ==
    {Test(A, "Suite", "Feature", <<>>, f) : f \in FlagSets}
    \cup {Result(A, r, OneLine, "known", {}) : r \in {"OK", "Fail", "XFail"}}
    \cup {Attribute(A, "owner", "me", {})}
    \cup {Input(A, "continue?", f) : f \in FlagSets}

\* result_message and result_reason are read for some result types only
Fields(kind) ==
    Required(kind)
    \cup (IF kind = "RESULT" THEN {"result_message", "result_reason"} ELSE {})

MalformedEvents ==
    UNION {{Lacking(m, key) : key \in Fields(m.message_keyword)} :
              m \in WellFormedEvents}

SendWellFormed ==
    \E m \in WellFormedEvents : Len(log) < MaxPure /\ Fresh(m) /\ transform(m)

SendMalformed ==
    \E m \in MalformedEvents : Len(log) < MaxPure /\ Fresh(m) /\ transform(m)

\* messages that lack a key
SpecMalformed == Init /\ [][SendWellFormed \/ SendMalformed]_vars

\* TEST messages whose type or subtype TestType and TestSubType lack
UnknownEvents ==
    {Test(id, t, st, <<>>, {}) :
        id \in {A, A1}, t \in {"Suite", "Test", "Step", "Unknown"},
        st \in {"None", "Given", "Unknown"}}

SendUnknown == \E m \in UnknownEvents : Len(log) < MaxPure /\ Fresh(m) /\ transform(m)

SpecUnknown == Init /\ [][SendUnknown]_vars

-----------------------------------------------------------------------------
(* specification.py: strings as sequences of characters.                   *)

LowerCase == <<"a", "b", "c", "d", "e", "f", "g", "h", "i", "j", "k", "l", "m",
               "n", "o", "p", "q", "r", "s", "t", "u", "v", "w", "x", "y", "z">>

UpperCase == <<"A", "B", "C", "D", "E", "F", "G", "H", "I", "J", "K", "L", "M",
               "N", "O", "P", "Q", "R", "S", "T", "U", "V", "W", "X", "Y", "Z">>

Digits == <<"0", "1", "2", "3", "4", "5", "6", "7", "8", "9">>

Range(f) == {f[i] : i \in DOMAIN f}

\* characters that \s matches and that str.strip() strips
WhiteSpace == {" ", "\n", "\t"}

\* str.lower() and str.upper()
lower(text) ==
    [i \in 1..Len(text) |->
        IF text[i] \in Range(UpperCase)
        THEN LowerCase[CHOOSE j \in 1..Len(UpperCase) : UpperCase[j] = text[i]]
        ELSE text[i]]

upper(text) ==
    [i \in 1..Len(text) |->
        IF text[i] \in Range(LowerCase)
        THEN UpperCase[CHOOSE j \in 1..Len(LowerCase) : LowerCase[j] = text[i]]
        ELSE text[i]]

\* the characters of a segment of an id
numeral(p) == IF p = "109" THEN <<"1", "0", "9">> ELSE <<p>>

\* the value of a digit
digit(c) == (CHOOSE j \in 1..Len(Digits) : Digits[j] = c) - 1

RECURSIVE int_of(_)
int_of(text) ==
    IF Len(text) = 1 THEN digit(text[1])
    ELSE Len(Digits) * int_of(Front(text)) + digit(Last(text))

\* int(p) of a decimal numeral
int(p) == int_of(numeral(p))

RECURSIVE str(_)
\* str(n) of a natural number
str(n) ==
    IF n < Len(Digits) THEN <<Digits[n + 1]>>
    ELSE str(n \div Len(Digits)) \o <<Digits[(n % Len(Digits)) + 1]>>

RECURSIVE lstrip_chars(_, _)
\* text.lstrip(chars)
lstrip_chars(text, chars) ==
    IF text # <<>> /\ text[1] \in chars THEN lstrip_chars(Tail(text), chars)
    ELSE text

RECURSIVE rstrip_chars(_, _)
rstrip_chars(text, chars) ==
    IF text # <<>> /\ Last(text) \in chars THEN rstrip_chars(Front(text), chars)
    ELSE text

\* text.strip()
strip(text) == rstrip_chars(lstrip_chars(text, WhiteSpace), WhiteSpace)

RECURSIVE join(_, _)
\* sep.join(parts)
join(sep, parts) ==
    IF parts = <<>> THEN <<>>
    ELSE IF Len(parts) = 1 THEN parts[1]
    ELSE parts[1] \o sep \o join(sep, Tail(parts))

\* the characters of the names of the types and subtypes
chars(word) ==
    CASE word = "Module" -> <<"M", "o", "d", "u", "l", "e">>
      [] word = "Suite" -> <<"S", "u", "i", "t", "e">>
      [] word = "Test" -> <<"T", "e", "s", "t">>
      [] word = "Iteration" -> <<"I", "t", "e", "r", "a", "t", "i", "o", "n">>
      [] word = "Step" -> <<"S", "t", "e", "p">>
      [] word = "Feature" -> <<"F", "e", "a", "t", "u", "r", "e">>
      [] word = "Scenario" -> <<"S", "c", "e", "n", "a", "r", "i", "o">>
      [] word = "Given" -> <<"G", "i", "v", "e", "n">>
      [] word = "When" -> <<"W", "h", "e", "n">>
      [] OTHER -> <<>>

-----------------------------------------------------------------------------
(* Formatter.format_tests, lines 87-151.                                   *)

\* [^a-zA-Z0-9-_\s]: what the inner re.sub of anchor removes
Removed(c) ==
    c \notin Range(LowerCase) \cup Range(UpperCase) \cup Range(Digits)
             \cup {"-", "_"} \cup WhiteSpace

Kept(c) == ~Removed(c)

RECURSIVE sub_whitespace(_)
\* re.sub(r"\s+", "-", text)
sub_whitespace(text) ==
    IF text = <<>> THEN <<>>
    ELSE IF text[1] \in WhiteSpace
         THEN <<"-">> \o sub_whitespace(lstrip_chars(text, WhiteSpace))
         ELSE <<text[1]>> \o sub_whitespace(Tail(text))

\* anchor with a hyphen for every blank, not one for every run of blanks
anchor_every_blank(heading) ==
    LET kept == SelectSeq(lower(heading), Kept)
    IN [i \in 1..Len(kept) |-> IF kept[i] \in WhiteSpace THEN "-" ELSE kept[i]]

\* lines 95-96
anchor(heading) == sub_whitespace(SelectSeq(lower(heading), Kept))

\* the numbering that takes every segment as an ordinal, the first one too
section_id_all_ordinals(id) == [i \in 1..Len(id) |-> str(int(id[i]) + 1)]

\* line 101: the numbers of the segments of test["id"].split(sep)[1:]
section_id(id) ==
    [i \in 1..Len(id) |-> IF i = 1 THEN <<"1">> ELSE str(int(id[i]) + 1)]

\* TestType as an IntEnum: the rank of a type
TestTypeRank(type) ==
    CASE type = "Module" -> 40
      [] type = "Suite" -> 30
      [] type = "Test" -> 20
      [] type = "Iteration" -> 15
      [] type = "Step" -> 10

\* getattr(TestType, type) < TestType.Test
below_Test(type) == TestTypeRank(type) < TestTypeRank("Test")

\* add_steps going into the steps of every step, whatever its type
RECURSIVE add_steps_everywhere(_, _)
add_steps_everywhere(test, level) ==
    LET RECURSIVE loop(_)
        loop(i) ==
            IF i > Len(test.steps) THEN <<>>
            ELSE LET step == test.steps[i]
                 IN <<[kind |-> "step", indent |-> 2 * level,
                       keyword |-> step.keyword, name |-> step.name, id |-> step.id]>>
                    \o (IF step.description # <<>>
                        THEN <<[kind |-> "description", indent |-> 4 * level,
                                keyword |-> "", name |-> strip(step.description),
                                id |-> step.id]>>
                        ELSE <<>>)
                    \o (IF step.steps # <<>>
                        THEN add_steps_everywhere(step, level + 1) ELSE <<>>)
                    \o loop(i + 1)
    IN loop(1)
       \o (IF test.steps = <<>>
           THEN <<[kind |-> "none", indent |-> 0, keyword |-> "",
                   name |-> <<"N", "o", "n", "e">>, id |-> test.id]>>
           ELSE <<>>)

\* lines 133-142: the lines add_steps appends, a bullet for every step
RECURSIVE add_steps(_, _)
add_steps(test, level) ==
    LET RECURSIVE loop(_)
        loop(i) ==
            IF i > Len(test.steps) THEN <<>>
            ELSE LET step == test.steps[i]
                 IN <<[kind |-> "step", indent |-> 2 * level,
                       keyword |-> step.keyword, name |-> step.name, id |-> step.id]>>
                    \o (IF step.description # <<>>
                        THEN <<[kind |-> "description", indent |-> 4 * level,
                                keyword |-> "", name |-> strip(step.description),
                                id |-> step.id]>>
                        ELSE <<>>)
                    \o (IF below_Test(step.type) /\ step.steps # <<>>
                        THEN add_steps(step, level + 1) ELSE <<>>)
                    \o loop(i + 1)
    IN loop(1)
       \o (IF test.steps = <<>>
           THEN <<[kind |-> "none", indent |-> 0, keyword |-> "",
                   name |-> <<"N", "o", "n", "e">>, id |-> test.id]>>
           ELSE <<>>)

\* format_section with the anchor made of keyword and name, without the number
format_section_name_anchor(test) ==
    LET id == join(<<".">>, section_id(test.id))
        heading_line == <<"#", "#", "#", " ", "2", ".">> \o id \o <<" ">>
                        \o upper(chars(test.keyword)) \o <<" ", "*", "*">>
                        \o test.name \o <<"*", "*", "\n">>
        name == upper(chars(test.keyword)) \o <<" ">> \o test.name
    IN [section |-> [heading |-> heading_line, path |-> test.path, id |-> test.id,
                     procedure |-> add_steps(test, 1)],
        entry |-> [indent |-> 2 * Len(section_id(test.id)),
                   number |-> <<"2", ".">> \o id,
                   text |-> name,
                   anchor |-> anchor(name)]]

\* lines 98-149: the section of one test and its entry in the contents
format_section(test) ==
    LET id == join(<<".">>, section_id(test.id))
        heading_line == <<"#", "#", "#", " ", "2", ".">> \o id \o <<" ">>
                        \o upper(chars(test.keyword)) \o <<" ", "*", "*">>
                        \o test.name \o <<"*", "*", "\n">>
        heading == strip(lstrip_chars(heading_line, {"#", " "}))
        name == upper(chars(test.keyword)) \o <<" ">> \o test.name
    IN [section |-> [heading |-> heading_line, path |-> test.path, id |-> test.id,
                     procedure |-> add_steps(test, 1)],
        entry |-> [indent |-> 2 * Len(section_id(test.id)),
                   number |-> <<"2", ".">> \o id,
                   text |-> name,
                   anchor |-> anchor(heading)]]

-----------------------------------------------------------------------------
(* Handler.test and Handler.tests, lines 206-236.                          *)

RECURSIVE test(_, _)
test(res, m) ==
    LET children == get(res.tests_by_parent, m.test_id, <<>>)
    IN [path |-> m.test_name,
        keyword |-> IF m.test_subtype # "None" THEN m.test_subtype ELSE m.test_type,
        type |-> m.test_type,
        subtype |-> m.test_subtype,
        description |-> m.test_description,
        name |-> basename(m.test_name),
        id |-> m.test_id,
        steps |-> [i \in 1..Len(children) |-> test(res, children[i])]]

\* lines 229-236: the tests that get a section
tests(res) ==
    LET kept == SelectSeq(res.tests, LAMBDA m : ~below_Test(m.test_type))
    IN [i \in 1..Len(kept) |-> test(res, kept[i])]

-----------------------------------------------------------------------------
(* Handler.handle, lines 238-256, in steps.                                *)

\* the fixed entries of the contents, lines 155-156
FixedEntries ==
    <<[indent |-> 0, number |-> <<"1">>,
       text |-> <<"O", "v", "e", "r", "v", "i", "e", "w">>,
       anchor |-> <<"1", "-", "o", "v", "e", "r", "v", "i", "e", "w">>],
      [indent |-> 0, number |-> <<"2">>,
       text |-> <<"P", "r", "o", "c", "e", "d", "u", "r", "e", "s">>,
       anchor |-> <<"2", "-", "p", "r", "o", "c", "e", "d", "u", "r", "e", "s">>]>>

\* Handler.data: data["tests"] = self.tests(results)
HandlerData ==
    /\ pc = "handle"
    /\ data' = tests(results)
    /\ pc' = "format"
    /\ UNCHANGED <<results, toc, ss, shortvars>>

\* Formatter.format and the head of format_tests, lines 88-93 and 154-157;
\* ss holds the sections of the tests only
Format ==
    /\ pc = "format"
    /\ toc' = FixedEntries
    /\ ss' = <<>>
    /\ pc' = "tests"
    /\ UNCHANGED <<results, data, shortvars>>

\* one turn of the loop of format_tests, lines 98-149
FormatTest ==
    /\ pc = "tests"
    /\ Len(ss) < Len(data)
    /\ LET r == format_section(data[Len(ss) + 1])
       IN /\ ss' = Append(ss, r.section)
          /\ toc' = Append(toc, r.entry)
    /\ UNCHANGED <<results, data, pc, shortvars>>

\* lines 151 and 158-165: the document is put together and written
Generate ==
    /\ pc = "tests"
    /\ Len(ss) = Len(data)
    /\ pc' = "done"
    /\ UNCHANGED <<results, data, toc, ss, shortvars>>

-----------------------------------------------------------------------------
(* The results the report is made of.                                      *)

\* a test, its two children, two tests below the first child and one below
R == <<"3">>
Ra == <<"3", "0">>
Raa == <<"3", "0", "0">>
Raaa == <<"3", "0", "0", "0">>
Rab == <<"3", "0", "9">>
Rb == <<"3", "1">>

\* the order of the log
ReportOrder == <<R, Ra, Raa, Raaa, Rab, Rb>>

\* the last segment of the name of a test
ReportName(id) ==
    CASE id = R -> <<"M", "y", " ", "S", "u", "i", "t", "e", "!">>
      [] id = Ra -> <<"a", " ", " ", "B", "!">>
      [] id = Raa -> <<"L", "o", "g", "-", "i", "n", "_", "O", "K", "?">>
      [] id = Raaa -> <<"x">>
      [] id = Rab -> <<"(", "2", ")", "\t", "e", "n", "d">>
      [] id = Rb -> <<"U", "P", ".", "d", "o", "w", "n">>

ReportPath(id) == [i \in 1..Len(id) |-> ReportName(SubSeq(id, 1, i))]

ReportDescription(id) == IF id = Raa THEN <<" ", "d", "o", "\n">> ELSE <<>>

\* type and subtype of a test of the results
TypePairs == {<<"Suite", "Feature">>, <<"Test", "None">>, <<"Step", "Given">>}

ReportTest(id, pair) ==
    [Test(id, pair[1], pair[2], ReportDescription(id), {}) EXCEPT
        !.test_name = ReportPath(id)]

\* the sets of ids of a log: the root, and with a test its parent
ReportShapes ==
    {S \in SUBSET Range(ReportOrder) :
        R \in S /\ \A id \in S : Len(id) > 1 => Front(id) \in S}

\* results["tests"] and results["tests_by_parent"] of the tests S typed by pairs
Results(S, pairs) ==
    LET ids == SelectSeq(ReportOrder, LAMBDA id : id \in S)
        all == [i \in 1..Len(ids) |-> ReportTest(ids[i], pairs[ids[i]])]
    IN [tests |-> all,
        tests_by_parent |->
            [p \in {Front(id) : id \in S \ {R}} |->
                SelectSeq(all, LAMBDA m : Front(m.test_id) = p)]]

ReportInputs == UNION {{Results(S, pairs) : pairs \in [S -> TypePairs]} : S \in ReportShapes}

\* Handler.handle is called with the results of a log
InitReport ==
    /\ tests_by_id = <<>>
    /\ tests_by_parent = <<>>
    /\ last_message = NoMessage
    /\ line = None
    /\ msg = NoMessage
    /\ error = ""
    /\ show_skipped = FALSE
    /\ runs = {1}
    /\ log = <<>>
    /\ results \in ReportInputs
    /\ data = <<>>
    /\ toc = <<>>
    /\ ss = <<>>
    /\ pc = "handle"

\* the specification report of every such log
SpecReport == InitReport /\ [][HandlerData \/ Format \/ FormatTest \/ Generate]_vars

\* a test whose last segment has three digits, beside the tests above
Rk == <<"3", "109">>

AnchorOrder == <<R, Ra, Raa, Rab, Rb, Rk>>

\* the names a test below the root may have
AnchorNames == {<<"x">>, <<"L", "o", "g", " ", "i", "n">>}

AnchorPairs == {<<"Test", "None">>, <<"Step", "Given">>}

AnchorShapes ==
    {S \in SUBSET Range(AnchorOrder) :
        R \in S /\ \A id \in S : Len(id) > 1 => Front(id) \in S}

\* the test of an id, the names of the tests on its path given
AnchorTest(id, pair, names) ==
    [Test(id, pair[1], pair[2], <<>>, {}) EXCEPT
        !.test_name = [i \in 1..Len(id) |-> names[SubSeq(id, 1, i)]]]

\* results of the tests S, the root a suite, the others typed and named freely
AnchorResults(S, pairs, names) ==
    LET ids == SelectSeq(AnchorOrder, LAMBDA id : id \in S)
        all == [i \in 1..Len(ids) |-> AnchorTest(ids[i], pairs[ids[i]], names)]
    IN [tests |-> all,
        tests_by_parent |->
            [p \in {Front(id) : id \in S \ {R}} |->
                SelectSeq(all, LAMBDA m : Front(m.test_id) = p)]]

AnchorInputs ==
    UNION {{AnchorResults(S, pairs, names) :
                pairs \in {f \in [S -> AnchorPairs \cup {<<"Suite", "Feature">>}] :
                            \A id \in S : (id = R) <=> (f[id] = <<"Suite", "Feature">>)},
                names \in {f \in [S -> AnchorNames \cup {ReportName(R)}] :
                            \A id \in S : (id = R) <=> (f[id] = ReportName(R))}} :
           S \in AnchorShapes}

\* Handler.handle is called with the results of such a log
InitAnchors ==
    /\ tests_by_id = <<>>
    /\ tests_by_parent = <<>>
    /\ last_message = NoMessage
    /\ line = None
    /\ msg = NoMessage
    /\ error = ""
    /\ show_skipped = FALSE
    /\ runs = {1}
    /\ log = <<>>
    /\ results \in AnchorInputs
    /\ data = <<>>
    /\ toc = <<>>
    /\ ss = <<>>
    /\ pc = "handle"

\* the report of tests that may share keyword and name
SpecAnchors == InitAnchors /\ [][HandlerData \/ Format \/ FormatTest \/ Generate]_vars

-----------------------------------------------------------------------------
(* The history, read back.  Index k is the k-th message sent.              *)

Indices == 1..Len(log)

Max(S) == CHOOSE x \in S : \A y \in S : y <= x

\* the k-th message was a TEST message and a block was yielded for it
Rendered(k) == log[k].line.some

RenderedTest(k) == log[k].msg.message_keyword = "TEST" /\ Rendered(k)

IdOf(k) == log[k].msg.test_id

ParentOf(k) == Front(IdOf(k))

\* the texts of the pieces of an output line
Texts(l) == [i \in 1..Len(l.pieces) |-> l.pieces[i].text]

\* the keyword a TEST message was rendered with
KeywordAt(k) == log[k].line.text[1].pieces[1].text

\* a rendered step of the given subtype
StepAt(k, subtype) ==
    /\ RenderedTest(k)
    /\ log[k].msg.test_type = "Step"
    /\ log[k].msg.test_subtype = subtype

\* the tests rendered before message k under the parent of message k
SiblingsBefore(k) ==
    {i \in 1..(k - 1) : RenderedTest(i) /\ ParentOf(i) = ParentOf(k)}

\* i is the sibling rendered immediately before k
PrevSibling(i, k) ==
    SiblingsBefore(k) # {} /\ i = Max(SiblingsBefore(k))

\* a test was rendered before message k under the test of message i
HasChildBefore(i, k) ==
    \E c \in 1..(k - 1) : RenderedTest(c) /\ ParentOf(c) = IdOf(i)

\* rule (a): the sibling before k has the subtype and is childless
CollapseBySibling(k, subtype) ==
    \E i \in Indices :
        /\ PrevSibling(i, k)
        /\ log[i].msg.test_subtype = subtype
        /\ ~HasChildBefore(i, k)

\* rule (b): the parent of k has the subtype and k is its first child
CollapseByParent(k, subtype) ==
    /\ SiblingsBefore(k) = {}
    /\ \E p \in 1..(k - 1) :
        /\ RenderedTest(p)
        /\ IdOf(p) = ParentOf(k)
        /\ log[p].msg.test_subtype = subtype

Collapses(k, subtype) == CollapseBySibling(k, subtype) \/ CollapseByParent(k, subtype)

AndSubTypes == {"Given", "When", "Then", "By", "But", "Finally"}

-----------------------------------------------------------------------------
(* C1 - the And-collapse rule.                                             *)

\* C1: a rendered step of subtype S in Given, When, Then, By, But, Finally has
\* the keyword And if the sibling rendered immediately before it under its
\* parent has subtype S and had no children then, or else if its parent was
\* rendered with subtype S and the step is the parent's first child; in every
\* other case its keyword is the name of S.
C1_AndCollapse ==
    \A k \in Indices : \A S \in AndSubTypes :
        StepAt(k, S) => KeywordAt(k) = IF Collapses(k, S) THEN "And" ELSE S

\* a step is kept literal after an elaborated step of its subtype and the
\* next one is collapsed after it
C1_Witness ==
    \E i, j, k \in Indices :
        /\ StepAt(i, "Given") /\ StepAt(j, "Given") /\ StepAt(k, "Given")
        /\ PrevSibling(i, j) /\ HasChildBefore(i, j) /\ KeywordAt(j) = "Given"
        /\ PrevSibling(j, k) /\ KeywordAt(k) = "And"

-----------------------------------------------------------------------------
(* C2 - three consecutive Given steps.                                     *)

\* X, Y, Z are consecutive rendered Given steps of one parent, none with a child
GivenTriple(x, y, z) ==
    /\ StepAt(x, "Given") /\ StepAt(y, "Given") /\ StepAt(z, "Given")
    /\ PrevSibling(x, y) /\ PrevSibling(y, z)
    /\ \A i \in {x, y, z} : ~HasChildBefore(i, Len(log) + 1)

\* C2 as claimed: of three consecutive childless Given steps of one parent
\* the first is rendered Given and the other two And.
C2_Claimed ==
    \A x, y, z \in Indices :
        GivenTriple(x, y, z) =>
            KeywordAt(x) = "Given" /\ KeywordAt(y) = "And" /\ KeywordAt(z) = "And"

\* C2, amended: of three consecutive childless Given steps of one parent the
\* second and third are rendered And; the first is rendered Given unless it
\* collapses itself (the sibling rendered before it is a childless Given, or
\* it is the first child of a parent rendered with subtype Given), and then
\* it is rendered And as well.
C2_GivenTriple ==
    \A x, y, z \in Indices :
        GivenTriple(x, y, z) =>
            /\ KeywordAt(y) = "And" /\ KeywordAt(z) = "And"
            /\ KeywordAt(x) = IF Collapses(x, "Given") THEN "And" ELSE "Given"

\* three such steps, the first of them literal
C2_Witness ==
    \E x, y, z \in Indices :
        GivenTriple(x, y, z) /\ KeywordAt(x) = "Given" /\ KeywordAt(z) = "And"

-----------------------------------------------------------------------------
(* C3 - a When step after a Given step.                                    *)

GivenMessage(k) ==
    /\ log[k].msg.message_keyword = "TEST"
    /\ log[k].msg.test_type = "Step"
    /\ log[k].msg.test_subtype = "Given"

\* C3 as claimed: a When step sent immediately after a Given step is never
\* rendered And.
C3_Claimed ==
    \A k \in Indices :
        (k > 1 /\ GivenMessage(k - 1) /\ StepAt(k, "When")) => KeywordAt(k) # "And"

\* C3, amended: a When step sent immediately after a Given step that was
\* rendered (not dropped) and has the same parent is never rendered And,
\* whatever was sent before them.
C3_WhenAfterGiven ==
    \A k \in Indices :
        (/\ k > 1 /\ StepAt(k - 1, "Given") /\ StepAt(k, "When")
         /\ ParentOf(k - 1) = ParentOf(k))
        => KeywordAt(k) = "When"

\* a When leaf, a Given and a When follow each other under one parent
C3_Witness ==
    \E k \in Indices :
        /\ k > 2 /\ StepAt(k - 2, "When") /\ StepAt(k - 1, "Given") /\ StepAt(k, "When")
        /\ ParentOf(k - 2) = ParentOf(k) /\ ParentOf(k - 1) = ParentOf(k)
        /\ KeywordAt(k) = "When"

-----------------------------------------------------------------------------
(* C4 - the collapse resets after elaboration.                             *)

\* a TEST message whose parent id is the test of message i was sent at c
ChildSent(i, c) ==
    /\ log[c].msg.message_keyword = "TEST"
    /\ Front(log[c].msg.test_id) = IdOf(i)

\* C4 as claimed: once a TEST message whose parent is a Given step arrived,
\* the next Given step of the same parent is rendered Given.
C4_Claimed ==
    \A i, c, k \in Indices :
        (/\ i < c /\ c < k
         /\ StepAt(i, "Given") /\ ChildSent(i, c)
         /\ StepAt(k, "Given") /\ PrevSibling(i, k))
        => KeywordAt(k) = "Given"

\* C4, amended: once a TEST message whose parent is a Given step was rendered
\* (it was not dropped for its skip flag), the next Given step rendered under
\* the same parent is rendered Given, not And.
C4_ResetAfterElaboration ==
    \A i, c, k \in Indices :
        (/\ i < c /\ c < k
         /\ StepAt(i, "Given") /\ ChildSent(i, c) /\ RenderedTest(c)
         /\ StepAt(k, "Given") /\ PrevSibling(i, k))
        => KeywordAt(k) = "Given"

\* a Given step, its child and its next Given sibling were rendered
C4_Witness ==
    \E i, c, k \in Indices :
        /\ i < c /\ c < k
        /\ StepAt(i, "Given") /\ ChildSent(i, c) /\ RenderedTest(c)
        /\ StepAt(k, "Given") /\ PrevSibling(i, k)
        /\ KeywordAt(k) = "Given"

-----------------------------------------------------------------------------
(* C5 - the end-to-end scenario.                                           *)

SentMessages == [k \in Indices |-> log[k].msg]

\* a yielded block as its lines' indentation and texts
Shown(k) ==
    [j \in 1..Len(log[k].line.text) |->
        [ind |-> log[k].line.text[j].ind, texts |-> Texts(log[k].line.text[j])]]

InTexts(t, l) == \E i \in 1..Len(l.texts) : l.texts[i] = t

-----------------------------------------------------------------------------
(* C6 - keyword precedence.                                                *)

ExpectedKeyword(k) ==
    LET type == log[k].msg.test_type
        subtype == log[k].msg.test_subtype
    IN CASE type = "Module" -> "Module"
         [] type = "Suite" /\ subtype = "Feature" -> "Feature"
         [] type = "Suite" /\ subtype # "Feature" -> "Suite"
         [] type = "Iteration" -> "Iteration"
         [] type = "Step" /\ subtype = "And" -> "And"
         [] type = "Step" /\ subtype \in AndSubTypes ->
                IF Collapses(k, subtype) THEN "And" ELSE subtype
         [] type = "Step" /\ subtype \notin AndSubTypes \cup {"And"} -> "Step"
         [] OTHER -> IF subtype \in {"Scenario", "Background"} THEN subtype ELSE "Test"

\* C6: the keyword of a rendered TEST message is decided by its type first and
\* its subtype second: Module; Feature or Suite for a Suite; Iteration; for a
\* Step And, the subtype name or And per the And-collapse rule, or Step; for
\* any other type Scenario, Background or Test.
C6_KeywordPrecedence ==
    \A k \in Indices : RenderedTest(k) => KeywordAt(k) = ExpectedKeyword(k)

\* a Suite and a Step, both of subtype Scenario, were rendered by their type
C6_Witness ==
    \E i, k \in Indices :
        /\ RenderedTest(i) /\ RenderedTest(k)
        /\ log[i].msg.test_type = "Suite" /\ log[i].msg.test_subtype = "Scenario"
        /\ KeywordAt(i) = "Suite"
        /\ log[k].msg.test_type = "Step" /\ log[k].msg.test_subtype = "Scenario"
        /\ KeywordAt(k) = "Step"

-----------------------------------------------------------------------------
(* C7 - kinds without a formatter.                                         *)

RenderedKinds == {"INPUT", "TEST", "RESULT", "ATTRIBUTE"}

\* C7: a message of a kind other than INPUT, TEST, RESULT, ATTRIBUTE yields
\* nothing and leaves tests_by_id, tests_by_parent and last_message as they
\* were, in any state.
C7_UnknownKindDropped ==
    [][(log' # log /\ msg'.message_keyword \notin RenderedKinds) =>
            /\ line' = None
            /\ tests_by_id' = tests_by_id
            /\ tests_by_parent' = tests_by_parent
            /\ last_message' = last_message]_vars

\* a message of another kind was dropped after a test was recorded
C7_Witness ==
    /\ msg.message_keyword \notin RenderedKinds /\ msg # NoMessage
    /\ line = None
    /\ DOMAIN tests_by_id # {} /\ DOMAIN tests_by_parent # {}
    /\ last_message # NoMessage

-----------------------------------------------------------------------------
(* C8 - skip suppression.                                                  *)

\* C8: a message of a rendered kind with the skip flag yields nothing when
\* show_skipped is False and yields what the same message without the flag
\* would yield otherwise; a message without the skip flag always yields a
\* block.
C8_SkipSuppression ==
    [][(log' # log /\ msg'.message_keyword \in RenderedKinds) =>
            IF SKIP \in msg'.test_flags
            THEN IF show_skipped = FALSE
                 THEN line' = None
                 ELSE /\ line'.some
                      /\ line' = call_formatter([msg' EXCEPT !.test_flags = {}],
                                    tests_by_parent, tests_by_id, last_message).out
            ELSE line'.some]_vars

\* a flagged message was dropped although an unflagged one was rendered before
C8_Witness ==
    /\ show_skipped = FALSE
    /\ msg # NoMessage /\ msg.message_keyword \in RenderedKinds
    /\ SKIP \in msg.test_flags
    /\ line = None
    /\ last_message # NoMessage

-----------------------------------------------------------------------------
(* C9 - the Attributes header.                                             *)

\* the message rendered last before message k, if any
RenderedBefore(k) == {i \in 1..(k - 1) : Rendered(i)}

AfterAttribute(k) ==
    /\ RenderedBefore(k) # {}
    /\ log[Max(RenderedBefore(k))].msg.message_keyword = "ATTRIBUTE"

HasHeader(k) == InTexts("Attributes", Shown(k)[1])

RenderedAttribute(k) == log[k].msg.message_keyword = "ATTRIBUTE" /\ Rendered(k)

\* C9: a rendered ATTRIBUTE message has the Attributes header exactly when
\* the message rendered immediately before it was not an ATTRIBUTE message,
\* also when no message was rendered before it.
C9_HeaderGrouping ==
    \A k \in Indices : RenderedAttribute(k) => (HasHeader(k) <=> ~AfterAttribute(k))

-----------------------------------------------------------------------------
(* C10 - the result line.                                                  *)

Solid(text) == {i \in 1..Len(text) : text[i].txt # ""}

\* the texts of a message as appended: its first non-blank line, then the
\* lines up to its last non-blank one
MessageHead(text) == IF Solid(text) = {} THEN "" ELSE text[Min(Solid(text))].txt

MessageMore(text) ==
    IF Solid(text) = {} THEN <<>>
    ELSE [j \in 1..(Max(Solid(text)) - Min(Solid(text))) |->
            LET l == text[Min(Solid(text)) + j]
            IN IF l.txt = "" THEN <<>> ELSE <<l.txt>>]

RenderedResult(k) == log[k].msg.message_keyword = "RESULT" /\ Rendered(k)

\* what follows the test name
Appended(m) ==
    IF m.result_type \in {"Fail", "Error", "Null"} /\ m.result_message # <<>>
    THEN <<",", " ", MessageHead(m.result_message)>>
    ELSE IF m.result_type \in XResults /\ m.result_reason # ""
    THEN <<",", " ", m.result_reason>>
    ELSE <<>>

-----------------------------------------------------------------------------
(* C11 - run isolation.                                                    *)

RECURSIVE EventsOf(_, _)
\* the messages sent to generator gen among the first k messages, in order
EventsOf(gen, k) ==
    IF k = 0 THEN <<>>
    ELSE IF log[k].run = gen THEN Append(EventsOf(gen, k - 1), log[k].msg)
    ELSE EventsOf(gen, k - 1)

RECURSIVE LinesOf(_, _)
\* what generator gen yielded for them
LinesOf(gen, k) ==
    IF k = 0 THEN <<>>
    ELSE IF log[k].run = gen THEN Append(LinesOf(gen, k - 1), log[k].line)
    ELSE LinesOf(gen, k - 1)

RECURSIVE Alone(_, _, _, _)
\* what a run yields for the events when the maps and the slot are its own
Alone(events, tbp, tbi, last) ==
    IF events = <<>> THEN <<>>
    ELSE LET r == transform_step(events[1], tbp, tbi, last, show_skipped)
         IN <<r.line>> \o Alone(Tail(events), r.tests_by_parent, r.tests_by_id,
                                 r.last_message)

\* C11: the blocks a run yields depend only on the events sent to that run:
\* they are the blocks the same events yield with maps and a last-rendered
\* slot that are fresh, whatever other runs of the process were sent before or
\* in between.
C11_RunIsolation ==
    \A gen \in runs :
        LinesOf(gen, Len(log)) = Alone(EventsOf(gen, Len(log)), <<>>, <<>>, NoMessage)

-----------------------------------------------------------------------------
(* C12 - a test id recorded twice.                                         *)

\* the message m reaches its formatter: it is of a registered kind and is not
\* dropped for its skip flag
Formatted(m) ==
    /\ m.message_keyword \in RenderedKinds
    /\ ~(SKIP \in m.test_flags /\ show_skipped = FALSE)

\* C12: a TEST message that comes to be recorded while its test_id is
\* recorded already ends the run with an error; the entry of tests_by_id is
\* not overwritten and the message is not appended to the list of its parent
\* a second time.
C12_DuplicateFatal ==
    [][(/\ log' # log /\ msg'.message_keyword = "TEST" /\ Formatted(msg')
        /\ msg'.test_id \in DOMAIN tests_by_id)
       => /\ error' # ""
          /\ tests_by_id' = tests_by_id
          /\ tests_by_parent' = tests_by_parent]_vars

-----------------------------------------------------------------------------
(* C13 - a test whose parent was never recorded.                           *)

\* C13: a TEST message of a test below the root that comes to be recorded
\* while the id of its parent is not recorded ends the run with an error; no
\* block is yielded for it and it is not recorded.
C13_HierarchyViolation ==
    [][(/\ log' # log /\ msg'.message_keyword = "TEST" /\ Formatted(msg')
        /\ Len(msg'.test_id) > 1
        /\ parentname(msg'.test_id) \notin DOMAIN tests_by_id)
       => /\ error' # ""
          /\ line' = None
          /\ tests_by_id' = tests_by_id
          /\ tests_by_parent' = tests_by_parent]_vars

-----------------------------------------------------------------------------
(* C14 - a message that lacks a required field.                            *)

\* the message lacks a key that is required for its kind
Malformed(m) ==
    /\ m.message_keyword \in RenderedKinds
    /\ m.absent \cap Required(m.message_keyword) # {}

\* C14: a message of a rendered kind that lacks a field required for its kind
\* ends the transform with an error, whatever its other fields are; no block
\* is yielded for it and it is not dropped silently.
C14_MalformedFails ==
    [][(log' # log /\ Malformed(msg')) => (error' # "" /\ line' = None)]_vars

-----------------------------------------------------------------------------
(* C15 - types and subtypes that are not recognized.                       *)

UnrecognizedTest(m) ==
    /\ m.message_keyword = "TEST" /\ Formatted(m)
    /\ (m.test_type \notin TestTypes \/ m.test_subtype \notin SubTypeNames)

\* C15: a TEST message whose type or subtype is not recognized does not fail
\* the transform: it is rendered, with the keyword Step if it is a Step and
\* with the keyword Test if its type is not recognized.
C15_KeywordFallback ==
    \A k \in Indices :
        UnrecognizedTest(log[k].msg) =>
            /\ Rendered(k)
            /\ log[k].msg.test_type = "Step" => KeywordAt(k) = "Step"
            /\ log[k].msg.test_type \notin TestTypes => KeywordAt(k) = "Test"

-----------------------------------------------------------------------------
(* C16 - the last-rendered slot.                                           *)

\* C16 as claimed: after every message last_message holds the message if a
\* block was yielded for it and None if nothing was yielded for it.
C16_Claimed ==
    [][log' # log =>
          last_message' = IF line'.some THEN msg' ELSE NoMessage]_vars

\* C16, amended: after every message last_message holds the message if a
\* block was yielded for it, and is left as it was if nothing was yielded for
\* it: it holds the last message a block was yielded for, or None if there
\* was none yet.
C16_LastRendered ==
    [][log' # log =>
          last_message' = IF line'.some THEN msg' ELSE last_message]_vars

\* a message was dropped and the slot still holds the message rendered before
C16_Witness ==
    /\ msg # NoMessage /\ line = None
    /\ last_message # NoMessage /\ last_message # msg
    /\ \E k \in Indices : Rendered(k) /\ log[k].msg = last_message

-----------------------------------------------------------------------------
(* C20 - the Hierarchy Tracker is append-only.                             *)

RECURSIVE RecordedUnder(_, _)
\* the TEST messages under parent p rendered among the first k messages
RecordedUnder(p, k) ==
    IF k = 0 THEN <<>>
    ELSE IF RenderedTest(k) /\ ParentOf(k) = p
         THEN Append(RecordedUnder(p, k - 1), log[k].msg)
         ELSE RecordedUnder(p, k - 1)

\* the child lists hold the rendered tests in the order they arrived
ArrivalOrder ==
    /\ \A p \in DOMAIN tests_by_parent :
            tests_by_parent[p] = RecordedUnder(p, Len(log))
    /\ \A k \in Indices : RenderedTest(k) => ParentOf(k) \in DOMAIN tests_by_parent

\* the step registers the message under its id and appends it to the list
\* of its parent, the list made if there was none
Records(m) ==
    LET p == parentname(m.test_id)
    IN /\ DOMAIN tests_by_id' = DOMAIN tests_by_id \cup {m.test_id}
       /\ tests_by_id'[m.test_id] = m
       /\ \A i \in DOMAIN tests_by_id \ {m.test_id} : tests_by_id'[i] = tests_by_id[i]
       /\ DOMAIN tests_by_parent' = DOMAIN tests_by_parent \cup {p}
       /\ tests_by_parent'[p] =
            (IF p \in DOMAIN tests_by_parent THEN tests_by_parent[p] ELSE <<>>) \o <<m>>
       /\ \A q \in DOMAIN tests_by_parent \ {p} : tests_by_parent'[q] = tests_by_parent[q]

\* C20: a rendered TEST message is registered under its test_id and appended
\* at the end of the child list of its parent, so the child lists are in
\* arrival order; RESULT, ATTRIBUTE, INPUT, dropped and unregistered messages
\* leave both maps as they were; no entry ever leaves either map.
C20_AppendOnly ==
    /\ []ArrivalOrder
    /\ [][log' # log =>
            IF msg'.message_keyword = "TEST" /\ line'.some
            THEN Records(msg')
            ELSE tests_by_id' = tests_by_id /\ tests_by_parent' = tests_by_parent]_vars

\* two steps are in the list of their parent and a third message was dropped
C20_Witness ==
    /\ \E p \in DOMAIN tests_by_parent :
            /\ Len(tests_by_parent[p]) = 2
            /\ tests_by_parent[p][1].test_id = A2 /\ tests_by_parent[p][2].test_id = A1
    /\ msg # NoMessage /\ line = None

-----------------------------------------------------------------------------
(* C17 - the numbers of the sections.                                      *)

\* the sections and entries written for the tests so far
Sections == 1..Len(ss)

\* the entry of the contents written with section k, after the two fixed ones
EntryOf(k) == toc[k + Len(FixedEntries)]

RECURSIVE Dotted(_, _)
\* 2, then for every segment a dot and its number: 1 for the first segment,
\* the segment plus one for every other
Dotted(id, i) ==
    IF i > Len(id) THEN <<>>
    ELSE <<".">> \o (IF i = 1 THEN <<"1">> ELSE str(int(id[i]) + 1))
         \o Dotted(id, i + 1)

ExpectedNumber(id) == <<"2">> \o Dotted(id, 1)

StartsWith(text, prefix) ==
    Len(text) >= Len(prefix) /\ SubSeq(text, 1, Len(prefix)) = prefix

\* C17: the heading of the section of a test is numbered 2.n1.n2... with n1
\* the literal 1 whatever the first segment of the test id is and every other
\* number the segment plus one, and the entry of the section in the table of
\* contents carries the same number.
C17_SectionNumbering ==
    \A k \in Sections :
        /\ StartsWith(ss[k].heading,
                      <<"#", "#", "#", " ">> \o ExpectedNumber(ss[k].id) \o <<" ">>)
        /\ EntryOf(k).number = ExpectedNumber(ss[k].id)

\* the section of the test /3/0/9 is numbered 2.1.1.10
C17_Witness ==
    /\ pc = "done"
    /\ \E k \in Sections :
        /\ ss[k].id = Rab
        /\ EntryOf(k).number = <<"2", ".", "1", ".", "1", ".", "1", "0">>

-----------------------------------------------------------------------------
(* C18 - which tests get a section and what their procedure lists.         *)

\* the types that rank at Test or above
AtOrAboveTest == {"Module", "Suite", "Test"}

TestIds == {results.tests[i].test_id : i \in 1..Len(results.tests)}

TypeOf(id) ==
    (CHOOSE m \in Range(results.tests) : m.test_id = id).test_type

\* id a is a proper prefix of id d
Above(a, d) == Len(a) < Len(d) /\ SubSeq(d, 1, Len(a)) = a

\* the tests below t that its procedure lists: every test between t and the
\* test ranks below Test
Listed(t) ==
    {d \in TestIds :
        /\ Above(t, d)
        /\ \A a \in TestIds : (Above(t, a) /\ Above(a, d)) => TypeOf(a) \notin AtOrAboveTest}

\* the positions of the bullets of the steps in the procedure of section k
Bullets(k) == {j \in 1..Len(ss[k].procedure) : ss[k].procedure[j].kind = "step"}

-----------------------------------------------------------------------------
(* C19 - the anchors of the table of contents.                             *)

\* the heading as it is rendered: the heading line without its marker
RenderedHeading(k) == SubSeq(ss[k].heading, 5, Len(ss[k].heading) - 1)

RECURSIVE Slug(_, _)
\* the slug of a text, character by character: lower case, a character that
\* is no letter, digit, blank, hyphen or underscore removed, a run of blanks
\* made one hyphen
Slug(text, inRun) ==
    IF text = <<>> THEN <<>>
    ELSE LET c == lower(<<text[1]>>)[1]
         IN IF c \in WhiteSpace
            THEN (IF inRun THEN <<>> ELSE <<"-">>) \o Slug(Tail(text), TRUE)
            ELSE IF c \in Range(LowerCase) \cup Range(Digits) \cup {"-", "_"}
            THEN <<c>> \o Slug(Tail(text), FALSE)
            ELSE Slug(Tail(text), inRun)

\* C19: the anchor of the entry of a section in the table of contents is the
\* slug of the heading rendered for the section, and the table of contents
\* has one entry for every section written, in the order of the sections.
C19_TocRoundTrip ==
    /\ pc \in {"tests", "done"} => Len(toc) = Len(ss) + Len(FixedEntries)
    /\ \A k \in Sections :
        /\ EntryOf(k).anchor = Slug(RenderedHeading(k), FALSE)
        /\ StartsWith(RenderedHeading(k), EntryOf(k).number)

\* the heading 2.1.1 TEST **a  B!** has the anchor 211-test-a-b
C19_Witness ==
    /\ pc = "done"
    /\ \E k \in Sections :
        /\ RenderedHeading(k) = <<"2", ".", "1", ".", "1", " ", "T", "E", "S", "T", " ",
                                  "*", "*", "a", " ", " ", "B", "!", "*", "*">>
        /\ EntryOf(k).anchor = <<"2", "1", "1", "-", "t", "e", "s", "t", "-", "a", "-", "b">>

-----------------------------------------------------------------------------
(* C21 - indentation follows the depth of test_id.                         *)

\* two spaces for every level below the root, as the line of a test has
Base(m) == 2 * (Len(m.test_id) - 1)

\* the columns of the lines of a block
Columns(block) == [k \in 1..Len(block.text) |-> block.text[k].ind]

\* columns of an attribute block at a base: the header, if any, one step in,
\* the name two steps in, the value three steps in
AttributeColumns(base, n) ==
    IF n = 3 THEN <<base + 2, base + 4, base + 6>> ELSE <<base + 4, base + 6>>

\* the first line of the block of test id, if the log has one
TestLineOf(id) ==
    {log[i].line.text[1].ind : i \in {j \in 1..Len(log) :
        /\ log[j].msg.message_keyword = "TEST" /\ log[j].line.some
        /\ log[j].msg.test_id = id}}

\* C21: every block yielded for a TEST, RESULT or INPUT message starts at two
\* spaces per level of its test_id and has no line left of that; the lines of
\* an ATTRIBUTE block (header, name, value) are at that base plus their fixed
\* steps; a block of any kind starts where the line of its test does.
C21_DepthIndentation ==
    \A i \in 1..Len(log) :
        LET m == log[i].msg
            block == log[i].line
        IN block.some =>
            /\ m.message_keyword \in {"TEST", "RESULT", "INPUT"} =>
                 /\ Columns(block)[1] = Base(m)
                 /\ \A k \in DOMAIN Columns(block) :
                        Columns(block)[k] = 0 \/ Columns(block)[k] >= Base(m)
                 /\ \A c \in TestLineOf(m.test_id) : Columns(block)[1] = c
            /\ m.message_keyword = "ATTRIBUTE" =>
                 Columns(block) = AttributeColumns(Base(m), Len(block.text))

\* the part of C21 on TEST and RESULT blocks and on the Attributes header
C21_TestResultHeader ==
    \A i \in 1..Len(log) :
        LET m == log[i].msg
            block == log[i].line
        IN block.some =>
            /\ m.message_keyword \in {"TEST", "RESULT"} =>
                 /\ Columns(block)[1] = Base(m)
                 /\ \A c \in TestLineOf(m.test_id) : Columns(block)[1] = c
            /\ (m.message_keyword = "ATTRIBUTE" /\ Len(block.text) = 3) =>
                 Columns(block)[1] = Base(m) + 2

\* the part of C21 on INPUT blocks
C21_Input ==
    \A i \in 1..Len(log) :
        (log[i].line.some /\ log[i].msg.message_keyword = "INPUT")
            => Columns(log[i].line)[1] = Base(log[i].msg)

\* the part of C21 on the name and value lines of ATTRIBUTE blocks
C21_AttributeLines ==
    \A i \in 1..Len(log) :
        (log[i].line.some /\ log[i].msg.message_keyword = "ATTRIBUTE")
            => LET c == Columns(log[i].line)
                   n == Len(c)
               IN c[n - 1] = Base(log[i].msg) + 4 /\ c[n] = Base(log[i].msg) + 6

-----------------------------------------------------------------------------
(* C22 - a test dropped for its skip flag is invisible to the And-collapse. *)

\* message d is a TEST message that skip suppression drops
DroppedTest(d) ==
    /\ log[d].msg.message_keyword = "TEST"
    /\ SKIP \in log[d].msg.test_flags
    /\ show_skipped = FALSE

\* the ids of the tests in the child lists of the tracker
ListedIds ==
    UNION {{tests_by_parent[p][j].test_id : j \in 1..Len(tests_by_parent[p])} :
                p \in DOMAIN tests_by_parent}

\* no test was rendered under the parent of k between messages d and k
NoneBetween(d, k) ==
    \A i \in (d + 1)..(k - 1) : ~(RenderedTest(i) /\ ParentOf(i) = ParentOf(k))

\* C22: a TEST message dropped by skip suppression is in neither map of the
\* tracker and is not the last rendered message; for a step k of subtype S
\* rendered after it: (a) if it is a sibling of subtype S sent right before k
\* and neither the sibling rendered before them nor the parent collapses k,
\* k keeps the keyword S; (b) if it is a sibling sent between k and a
\* childless rendered sibling of subtype S, k is still rendered And; (c) if
\* it is the only child sent for the sibling of subtype S rendered before k,
\* k is rendered And; (d) if it was sent under a parent rendered with subtype
\* S before the first rendered child k, k is rendered And.
C22_DroppedInvisible ==
    \A d \in Indices :
        DroppedTest(d) =>
            /\ ~Rendered(d)
            /\ IdOf(d) \notin DOMAIN tests_by_id
            /\ IdOf(d) \notin ListedIds
            /\ last_message # log[d].msg
            /\ \A k \in (d + 1)..Len(log) : \A S \in AndSubTypes :
                StepAt(k, S) =>
                    /\ (/\ ParentOf(d) = ParentOf(k) /\ NoneBetween(d, k)
                        /\ log[d].msg.test_subtype = S
                        /\ ~Collapses(k, S))
                       => KeywordAt(k) = S
                    /\ (/\ ParentOf(d) = ParentOf(k) /\ NoneBetween(d, k)
                        /\ log[d].msg.test_subtype # S
                        /\ \E i \in 1..(d - 1) :
                            /\ StepAt(i, S) /\ PrevSibling(i, k)
                            /\ ~HasChildBefore(i, k))
                       => KeywordAt(k) = "And"
                    /\ (\E i \in 1..(d - 1) :
                            /\ StepAt(i, S) /\ PrevSibling(i, k)
                            /\ ParentOf(d) = IdOf(i)
                            /\ ~HasChildBefore(i, k))
                       => KeywordAt(k) = "And"
                    /\ (/\ ParentOf(d) = ParentOf(k)
                        /\ SiblingsBefore(k) = {}
                        /\ \E i \in 1..(d - 1) :
                            StepAt(i, S) /\ IdOf(i) = ParentOf(k))
                       => KeywordAt(k) = "And"

\* a Given step was rendered, its only child was dropped and its next Given
\* sibling was rendered And
C22_Witness ==
    \E i, d, k \in Indices :
        /\ i < d /\ d < k
        /\ DroppedTest(d) /\ ParentOf(d) = IdOf(i)
        /\ StepAt(i, "Given") /\ StepAt(k, "Given") /\ PrevSibling(i, k)
        /\ KeywordAt(k) = "And"

\* a dropped Given step right before a Given step that keeps its keyword
C22_SiblingCase ==
    \E d, k \in Indices :
        /\ d < k /\ DroppedTest(d) /\ ParentOf(d) = ParentOf(k)
        /\ log[d].msg.test_subtype = "Given"
        /\ StepAt(k, "Given") /\ NoneBetween(d, k) /\ KeywordAt(k) = "Given"

\* a dropped When step between two Given steps, the second rendered And
C22_BetweenCase ==
    \E i, d, k \in Indices :
        /\ i < d /\ d < k /\ DroppedTest(d) /\ ParentOf(d) = ParentOf(k)
        /\ log[d].msg.test_subtype = "When"
        /\ StepAt(i, "Given") /\ StepAt(k, "Given") /\ PrevSibling(i, k)
        /\ KeywordAt(k) = "And"

\* a dropped first child of a Given step, the second child rendered And
C22_ParentCase ==
    \E p, d, k \in Indices :
        /\ p < d /\ d < k /\ DroppedTest(d) /\ ParentOf(d) = ParentOf(k)
        /\ StepAt(p, "Given") /\ IdOf(p) = ParentOf(k)
        /\ StepAt(k, "Given") /\ SiblingsBefore(k) = {} /\ KeywordAt(k) = "And"

-----------------------------------------------------------------------------
(* C23 - the anchors of the sections of one document.                      *)

\* sections i and j are of two tests of one root
TwoSections(i, j) ==
    /\ i # j
    /\ ss[i].id # ss[j].id
    /\ ss[i].id[1] = ss[j].id[1]

\* no segment of the id below the root is above 8: every number of the
\* section is one digit
OneDigitNumbers(id) ==
    \A n \in 2..Len(id) : id[n] \in {"0", "1", "2", "3", "4", "5", "6", "7", "8"}

\* C23 as claimed: two sections of tests with different ids and the same root
\* segment never have the same anchor in the contents.
C23_Claimed ==
    \A i, j \in Sections :
        TwoSections(i, j) => EntryOf(i).anchor # EntryOf(j).anchor

\* C23, amended: two sections of tests with different ids and the same root
\* segment never have the same anchor in the contents, even when the tests
\* have the same keyword and name, provided no segment below the root of
\* either id is above 8, so that every number between the dots of their
\* section numbers is a single digit.
C23_AnchorUniqueness ==
    \A i, j \in Sections :
        (TwoSections(i, j) /\ OneDigitNumbers(ss[i].id) /\ OneDigitNumbers(ss[j].id))
            => EntryOf(i).anchor # EntryOf(j).anchor

\* two tests of the same keyword and name, at different depths, have sections
C23_Witness ==
    /\ pc = "done"
    /\ \E i, j \in Sections :
        /\ TwoSections(i, j) /\ Len(ss[i].id) # Len(ss[j].id)
        /\ OneDigitNumbers(ss[i].id) /\ OneDigitNumbers(ss[j].id)
        /\ EntryOf(i).text = EntryOf(j).text
        /\ EntryOf(i).anchor # EntryOf(j).anchor

====
